---- MODULE Spec2Model ----
(***************************************************************************)
(* State-machine model of work_time_parser: the ExcelParser report engine  *)
(* (src/excel_parser.py) driven by the two HTTP handlers (src/app.py).     *)
(*                                                                         *)
(* Conventions.                                                            *)
(*  - A cell value is a tagged record: None, a number, a string or a       *)
(*    datetime.  Hours, rates and estimates are floats in the code and     *)
(*    whole numbers here (exact arithmetic, no rounding).                  *)
(*  - A worksheet under construction is the log of the cell accesses made  *)
(*    on it, in program order, each tagged with the method that made it.   *)
(*  - Strings are ASCII: the en dash of the period keys and banners is     *)
(*    written "-", the Cyrillic labels are transliterated.                 *)
(*  - Python rows are 0-based, sequences here 1-based: row[k] is r[k+1].   *)
(***************************************************************************)
EXTENDS Integers, Sequences, FiniteSets, TLC

VARIABLES
    UNUSED_COLUMNS,     \* ExcelParser.UNUSED_COLUMNS: class attribute, one list per process
    DEFAULT_FONT_name,  \* openpyxl's process-wide DEFAULT_FONT.name
    phase,              \* "idle" | "responding": position of the request being served
    call,               \* the request: endpoint and parameters
    workbook,           \* the uploaded temp file (header row + data rows), as last saved
    locals,             \* the local variables of the generate_* call when it ended
    new_ws,             \* the log of cell accesses on the output worksheet
    merged,             \* the merged ranges of the output worksheet
    outcome,            \* "ok" or the exception that ended the call
    saved               \* the document written by new_wb.save, or None

vars == <<UNUSED_COLUMNS, DEFAULT_FONT_name, phase, call, workbook, locals,
          new_ws, merged, outcome, saved>>

----------------------------------------------------------------------------
(* Bounds of the model *)

\* Longest upload (data rows) in the layout and the task specifications.
MaxRows == 3

\* Longest upload (data rows) in the dates specification.
MaxDatedRows == 2

\* Longest upload (data rows) in the fields specification.
MaxFieldRows == 3

----------------------------------------------------------------------------
(* Cell values *)

NoneV == [t |-> "None"]
Num(n) == [t |-> "num", n |-> n]
Str(s) == [t |-> "str", s |-> s]
DateTime(y, m, d) == [t |-> "datetime", y |-> y, m |-> m, d |-> d]

\* Python truthiness, as used by `x or default`.
Truthy(v) ==
    CASE v.t = "None" -> FALSE
      [] v.t = "num" -> v.n # 0
      [] v.t = "str" -> v.s # ""
      [] OTHER -> TRUE

\* `v or d`
PyOr(v, d) == IF Truthy(v) THEN v ELSE d

\* float(v) raises for anything but a number (the strings of the model are
\* not numerals).
FloatRaises(v) == v.t # "num"

\* float(v) of a number, as a whole number of units.
PyFloat(v) == v.n

\* str(v) inside an f-string.
PyStr(v) ==
    CASE v.t = "None" -> "None"
      [] v.t = "num" -> ToString(v.n)
      [] v.t = "str" -> v.s
      [] OTHER -> "datetime"

\* repr of a float with a whole value, e.g. 41.0
FloatRepr(n) == ToString(n) \o ".0"

\* {n:02}
Pad2(n) == IF n < 10 THEN "0" \o ToString(n) ELSE ToString(n)

----------------------------------------------------------------------------
(* Sequences *)

Max(S) == CHOOSE x \in S : \A y \in S : y <= x

RemoveAt(s, i) == [k \in 1..(Len(s) - 1) |-> IF k < i THEN s[k] ELSE s[k + 1]]

Range(s) == {s[i] : i \in 1..Len(s)}

RECURSIVE SumSeq(_)
SumSeq(s) == IF s = <<>> THEN 0 ELSE Head(s) + SumSeq(Tail(s))

SeqsUpTo(S, n) == UNION {[1..k -> S] : k \in 0..n}

----------------------------------------------------------------------------
(* The uploaded sheet and the pruning step *)

\* The columns of the time-tracking export, A..AA.  The code deletes 21 of
\* A..Z and then reads row[5] (financial): the sheet has a 27th column.
AllColumns ==
    <<"A", "B", "C", "D", "E", "F", "G", "H", "I", "J", "K", "L", "M", "N",
      "O", "P", "Q", "R", "S", "T", "U", "V", "W", "X", "Y", "Z", "AA">>

\* openpyxl.utils.column_index_from_string
column_index_from_string(col) == CHOOSE i \in 1..Len(AllColumns) : AllColumns[i] = col

\* The class attribute as the class body sets it.
UNUSED_COLUMNS_initial ==
    <<"A", "C", "D", "F", "H", "I", "J", "L", "M", "N", "O", "P",
      "Q", "S", "T", "U", "V", "W", "X", "Y", "Z">>

\* ws.delete_cols(col_index) on every row, for the indices in descending order.
RECURSIVE delete_cols(_, _)
delete_cols(row, indices) ==
    IF indices = {} THEN row
    ELSE LET m == Max(indices)
         IN delete_cols(IF m <= Len(row) THEN RemoveAt(row, m) ELSE row, indices \ {m})

\* list.pop(14) raises IndexError on a list of 14 or fewer items.
PopRaises(cols) == Len(cols) <= 14

\* self.UNUSED_COLUMNS.pop(14): 0-based index 14 is the 15th item.
PopEstimate(cols) == RemoveAt(cols, 15)

\* remove_unused_columns: the list the call deletes by (after the pop of a
\* project report), and the sheet it saves back to workbook_path.
ColumnsAfterPrune(cols, is_project_report) ==
    IF is_project_report THEN PopEstimate(cols) ELSE cols

remove_unused_columns(sheet, cols) ==
    LET indices == {column_index_from_string(cols[i]) : i \in 1..Len(cols)}
    IN [r \in 1..Len(sheet) |-> delete_cols(sheet[r], indices)]

----------------------------------------------------------------------------
(* Dates *)

\* The strings the model feeds as dates, in Python's string order.
StringOrder == <<"2024-02-20", "not a date">>

StrRank(s) == CHOOSE i \in 1..Len(StringOrder) : StringOrder[i] = s

\* datetime.fromisoformat on the strings of the model; NoneV for ValueError.
fromisoformat(s) ==
    IF s = "2024-02-20" THEN DateTime(2024, 2, 20) ELSE NoneV

\* ExcelParser._parse_date
parse_date(raw_date) ==
    CASE raw_date.t = "datetime" -> raw_date
      [] raw_date.t = "str" -> fromisoformat(raw_date.s)
      [] OTHER -> NoneV

isleap(year) == year % 4 = 0 /\ (year % 100 # 0 \/ year % 400 = 0)

\* monthrange without leap years: February always has 28 days.
monthrange_days_NoLeap(year, month) ==
    CASE month = 2 -> 28
      [] month \in {4, 6, 9, 11} -> 30
      [] OTHER -> 31

\* calendar.monthrange(year, month)[1]
monthrange_days(year, month) ==
    CASE month = 2 -> IF isleap(year) THEN 29 ELSE 28
      [] month \in {4, 6, 9, 11} -> 30
      [] OTHER -> 31

\* date.strftime("%B").lower()
MonthName(m) ==
    <<"january", "february", "march", "april", "may", "june", "july",
      "august", "september", "october", "november", "december">>[m]

\* date_val.strftime("%d.%m.%Y")
strftime_dmy(date) == Pad2(date.d) \o "." \o Pad2(date.m) \o "." \o ToString(date.y)

\* ExcelParser.generate_report_filename
generate_report_filename(report_type, date) ==
    report_type \o "_" \o MonthName(date.m) \o "_report.xlsx"

\* ExcelParser.build_period_titles
build_period_titles(date) ==
    LET month == date.m
        year == date.y
        last_day == monthrange_days(year, month)
    IN [first |-> "Period: 01." \o Pad2(month) \o "." \o ToString(year)
                    \o " - 15." \o Pad2(month) \o "." \o ToString(year),
        second |-> "Period: 16." \o Pad2(month) \o "." \o ToString(year)
                    \o " - " \o ToString(last_day) \o "." \o Pad2(month)
                    \o "." \o ToString(year)]

----------------------------------------------------------------------------
(* data.sort(key=lambda row: row[0]) *)

\* key(a) < key(b) where Python defines it.
KeyLess(a, b) ==
    CASE a.t = "datetime" ->
            \/ a.y < b.y
            \/ a.y = b.y /\ a.m < b.m
            \/ a.y = b.y /\ a.m = b.m /\ a.d < b.d
      [] a.t = "num" -> a.n < b.n
      [] a.t = "str" -> StrRank(a.s) < StrRank(b.s)
      [] OTHER -> FALSE

\* The sort raises TypeError as soon as it compares two keys that Python
\* cannot order: keys of two different types, or two None keys.  Any sort
\* of two or more items compares across every split of them.
SortRaises(data) ==
    /\ Len(data) >= 2
    /\ \E i, j \in 1..Len(data) :
          /\ i # j
          /\ \/ data[i][1].t # data[j][1].t
             \/ data[i][1].t = "None"

\* Stable insertion of row r into the sorted sequence s.
RECURSIVE InsertSorted(_, _)
InsertSorted(s, r) ==
    IF s = <<>> THEN <<r>>
    ELSE IF KeyLess(r[1], Head(s)[1]) THEN <<r>> \o s
    ELSE <<Head(s)>> \o InsertSorted(Tail(s), r)

RECURSIVE SortByDate(_)
SortByDate(data) ==
    IF data = <<>> THEN <<>>
    ELSE InsertSorted(SortByDate(SubSeq(data, 1, Len(data) - 1)), data[Len(data)])

----------------------------------------------------------------------------
(* grouped = defaultdict(list); grouped[row[1]].append(row) *)

\* An ordered mapping is a sequence of [key, rows] in first-insertion order.
HasKey(groups, k) == \E i \in 1..Len(groups) : groups[i].key = k

AppendTo(groups, k, row) ==
    IF HasKey(groups, k)
    THEN [i \in 1..Len(groups) |->
            IF groups[i].key = k
            THEN [key |-> k, rows |-> Append(groups[i].rows, row)]
            ELSE groups[i]]
    ELSE Append(groups, [key |-> k, rows |-> <<row>>])

RECURSIVE GroupByProject(_, _)
GroupByProject(data, groups) ==
    IF data = <<>> THEN groups
    ELSE GroupByProject(Tail(data), AppendTo(groups, Head(data)[2], Head(data)))

----------------------------------------------------------------------------
(* The output worksheet *)

\* ws.cell(row, column, value=...): one access of the log.
Cell(by, row, col, value) ==
    [by |-> by, row |-> row, col |-> col, kind |-> "value", value |-> value]

\* ws.cell(row, column).fill = ...: an access that sets no value.
Fill(by, row, col) ==
    [by |-> by, row |-> row, col |-> col, kind |-> "fill", value |-> NoneV]

\* ws.merge_cells(start_row=row, start_column=c1, end_row=row, end_column=c2)
MergedRange(by, row, c1, c2) == [by |-> by, row |-> row, c1 |-> c1, c2 |-> c2]

FinancialHeaders ==
    <<"Proekt", "Ssylka na TeamWork", "Opisanie", "Kol-vo chasov",
      "Rejt/chas [$]", "Kurs [$]", "Stoimost (GRN)", "Data">>

ProjectHeaders ==
    <<"Task name", "Link to TeamWork", "Estimated time", "Total count time">>

\* ExcelParser._write_header_row
write_header_row(headers) ==
    [i \in 1..Len(headers) |-> Cell("_write_header_row", 1, i, Str(headers[i]))]

TeamworkLink(task_id) == "https://avada.teamwork.com/#tasks/" \o PyStr(task_id)

\* rate_cell_ref / exchange_cell_ref: f"$G${row}"
AbsoluteRef(row) == "$G$" \o ToString(row)

\* amount_formula = f"=D{row_cursor}*E{row_cursor}*F{row_cursor}"
AmountFormula(row_cursor) ==
    "=D" \o ToString(row_cursor) \o "*E" \o ToString(row_cursor)
         \o "*F" \o ToString(row_cursor)

\* f"=SUM(D2:D{last_data_row})" and f"=SUM(G2:G{last_data_row})"
SumFormula(col, last_data_row) ==
    "=SUM(" \o col \o "2:" \o col \o ToString(last_data_row) \o ")"

\* ExcelParser._write_financial_row: float(row_data[4] or 0.0) may raise.
FinancialRowRaises(row_data) == FloatRaises(PyOr(row_data[5], Num(0)))

\* ExcelParser._write_financial_row: the eight cells of one entry row.
write_financial_row(row_cursor, row_data, rate_cell_ref, exchange_cell_ref) ==
    LET by == "_write_financial_row"
        date_val == parse_date(row_data[1])
        desc == PyOr(row_data[3], Str(""))
        hours == PyFloat(PyOr(row_data[5], Num(0)))
        task_id == row_data[6]
        teamwork_link == TeamworkLink(task_id)
    IN << Cell(by, row_cursor, 1, task_id),
          Cell(by, row_cursor, 2, Str(teamwork_link)),
          Cell(by, row_cursor, 3, desc),
          Cell(by, row_cursor, 4, Num(hours)),
          Cell(by, row_cursor, 5, Str("=" \o rate_cell_ref)),
          Cell(by, row_cursor, 6, Str("=" \o exchange_cell_ref)),
          Cell(by, row_cursor, 7, Str(AmountFormula(row_cursor))),
          Cell(by, row_cursor, 8,
               IF date_val.t = "datetime" THEN Str(strftime_dmy(date_val)) ELSE Str("")) >>

\* ExcelParser._merge_title_row
merge_title_row(st, row, title) ==
    [st EXCEPT !.merged = Append(@, MergedRange("_merge_title_row", row, 1, 8)),
               !.ws = Append(@, Cell("_merge_title_row", row, 1, title))]

\* for row in rows: row_cursor = self._write_financial_row(...)
\* st = [row_cursor, ws, merged, err]; the loop stops at the first exception.
RECURSIVE FinancialRowsLoop(_, _, _, _)
FinancialRowsLoop(rows, st, rate_cell_ref, exchange_cell_ref) ==
    IF rows = <<>> THEN st
    ELSE IF FinancialRowRaises(Head(rows)) THEN [st EXCEPT !.err = "ValueError"]
    ELSE FinancialRowsLoop(
            Tail(rows),
            [st EXCEPT
                !.ws = @ \o write_financial_row(st.row_cursor, Head(rows),
                                                rate_cell_ref, exchange_cell_ref),
                !.row_cursor = @ + 1],
            rate_cell_ref, exchange_cell_ref)

\* row_cursor += 3 after the entries of a project
FinancialGap(st) == [st EXCEPT !.row_cursor = @ + 3]

\* for project, rows in grouped.items(): title row, entry rows, three blank rows
RECURSIVE FinancialProjectsLoop(_, _, _, _)
FinancialProjectsLoop(grouped, st, rate_cell_ref, exchange_cell_ref) ==
    IF grouped = <<>> \/ st.err # "ok" THEN st
    ELSE LET titled == [merge_title_row(st, st.row_cursor, Head(grouped).key)
                            EXCEPT !.row_cursor = @ + 1]
             written == FinancialRowsLoop(Head(grouped).rows, titled,
                                          rate_cell_ref, exchange_cell_ref)
         IN IF written.err # "ok" THEN written
            ELSE FinancialProjectsLoop(Tail(grouped), FinancialGap(written),
                                       rate_cell_ref, exchange_cell_ref)

\* total_data_rows = sum(len(rows) + 4 for rows in grouped.values())
TotalDataRows(grouped) == SumSeq([i \in 1..Len(grouped) |-> Len(grouped[i].rows) + 4])

\* The rate row put below the three rows of the totals block.
RateRow_BelowTotals(total_data_rows) == total_data_rows + 6

\* rate_row = total_data_rows + 2
RateRow(total_data_rows) == total_data_rows + 2

\* The exchange-rate row without its + 1: the rate row again.
ExchangeRow_SameAsRate(rate_row) == rate_row

\* exchange_row = rate_row + 1
ExchangeRow(rate_row) == rate_row + 1

\* The last data row counted one blank row short.
LastDataRow_OffByOne(row_cursor) == row_cursor - 3

\* last_data_row = row_cursor - 4 (row_cursor as the projects loop left it)
LastDataRow(row_cursor) == row_cursor - 4

\* row_cursor += 1 before the totals block
TotalsRow(row_cursor) == row_cursor + 1

\* ExcelParser._write_bottom_totals
write_bottom_totals(row_cursor, last_data_row, rate, exchange_rate, rate_row, exch_row) ==
    LET by == "_write_bottom_totals"
    IN << Cell(by, rate_row, 6, Str("Rejt")),
          Cell(by, exch_row, 6, Str("Kurs")),
          Cell(by, rate_row, 7, Num(rate)),
          Cell(by, exch_row, 7, Num(exchange_rate)),
          Cell(by, row_cursor, 2, Str("ITOGO chasov")),
          Cell(by, row_cursor, 4, Str(SumFormula("D", last_data_row))),
          Cell(by, row_cursor, 5, Str("chasov")),
          Cell(by, row_cursor + 1, 2, Str("ITOGO k oplate")),
          Cell(by, row_cursor + 1, 4, Str(SumFormula("G", last_data_row))),
          Cell(by, row_cursor + 1, 5, Str("UAH")),
          Cell(by, row_cursor + 2, 2, Str("ITOGO v dollarah")),
          Cell(by, row_cursor + 2, 4,
               Str(SumFormula("G", last_data_row) \o "/" \o FloatRepr(exchange_rate))),
          Cell(by, row_cursor + 2, 5, Str("$")) >>
       \o [k \in 1..12 |-> Fill(by, row_cursor + ((k - 1) \div 4), 2 + ((k - 1) % 4))]

\* The locals of a generate_* call; NoneV where the call never assigned one.
NoLocals ==
    [data |-> NoneV, grouped |-> NoneV, grouped_by_period |-> NoneV,
     period_titles |-> NoneV, total_data_rows |-> NoneV, rate_row |-> NoneV,
     exchange_row |-> NoneV, row_cursor |-> NoneV, last_data_row |-> NoneV,
     filename |-> NoneV]

\* What a call leaves behind.
Result(oc, wb, lc, ws, mg, sv) ==
    [outcome |-> oc, workbook |-> wb, locals |-> lc, new_ws |-> ws,
     merged |-> mg, saved |-> sv]

\* filename = self.generate_report_filename(..., data[0][0]):
\* IndexError on no rows, AttributeError on a date that is no datetime.
FilenameOutcome(data) ==
    IF data = <<>> THEN "IndexError"
    ELSE IF data[1][1].t # "datetime" THEN "AttributeError"
    ELSE "ok"

\* ExcelParser.generate_financial_report
generate_financial_report(sheet, cols, rate, exchange_rate) ==
    LET pruned == remove_unused_columns(sheet, ColumnsAfterPrune(cols, FALSE))
        unsorted == Tail(pruned)
    IN IF SortRaises(unsorted)
       THEN Result("TypeError", pruned, [NoLocals EXCEPT !.data = unsorted],
                   <<>>, <<>>, NoneV)
       ELSE
       LET data == SortByDate(unsorted)
           grouped == GroupByProject(data, <<>>)
           total_data_rows == TotalDataRows(grouped)
           rate_row == RateRow(total_data_rows)
           exchange_row == ExchangeRow(rate_row)
           rate_cell_ref == AbsoluteRef(rate_row)
           exchange_cell_ref == AbsoluteRef(exchange_row)
           start == [row_cursor |-> 2, ws |-> write_header_row(FinancialHeaders),
                     merged |-> <<>>, err |-> "ok"]
           looped == FinancialProjectsLoop(grouped, start, rate_cell_ref, exchange_cell_ref)
           lc1 == [NoLocals EXCEPT !.data = data, !.grouped = grouped,
                      !.total_data_rows = total_data_rows, !.rate_row = rate_row,
                      !.exchange_row = exchange_row, !.row_cursor = looped.row_cursor]
       IN IF looped.err # "ok"
          THEN Result(looped.err, pruned, lc1, looped.ws, looped.merged, NoneV)
          ELSE
          LET last_data_row == LastDataRow(looped.row_cursor)
              row_cursor == TotalsRow(looped.row_cursor)
              ws == looped.ws \o write_bottom_totals(row_cursor, last_data_row, rate,
                                                     exchange_rate, rate_row, exchange_row)
              lc2 == [lc1 EXCEPT !.row_cursor = row_cursor,
                                 !.last_data_row = last_data_row]
          IN IF FilenameOutcome(data) # "ok"
             THEN Result(FilenameOutcome(data), pruned, lc2, ws, looped.merged, NoneV)
             ELSE
             LET filename == generate_report_filename("financial", data[1][1])
             IN Result("ok", pruned, [lc2 EXCEPT !.filename = Str(filename)],
                       ws, looped.merged, Str(filename))

----------------------------------------------------------------------------
(* The project report *)

\* defaultdict(lambda: {"task_name": "", "hours": 0.0, "estimated": None})
NewTask(task_id) ==
    [task_id |-> task_id, task_name |-> Str(""), hours |-> 0, estimated |-> NoneV]

HasTask(tasks, task_id) == \E i \in 1..Len(tasks) : tasks[i].task_id = task_id

\* estimated = float(row[5] or 0.0)
RowEstimate(row) == Num(PyFloat(PyOr(row[6], Num(0))))

\* if tasks[task_id]["estimated"] is None and estimated is not None:
\*     tasks[task_id]["estimated"] = estimated
RetainEstimate(current, estimated) ==
    IF current.t = "None" /\ estimated.t # "None" THEN estimated ELSE current

\* The body of `for row in rows` on one task entry.
FoldRow(task, row) ==
    [task EXCEPT !.task_name = PyOr(row[4], Str("")),
                 !.hours = @ + PyFloat(PyOr(row[5], Num(0))),
                 !.estimated = RetainEstimate(@, RowEstimate(row))]

\* float(row[4] or 0.0) or float(row[5] or 0.0) may raise.
FoldRaises(row) ==
    \/ FloatRaises(PyOr(row[5], Num(0)))
    \/ FloatRaises(PyOr(row[6], Num(0)))

\* A slip: the task id read at index 5, where the financial report reads it.
TaskIdOf_SixthField(row) == row[6]

\* task_id = row[6]
TaskIdOf(row) == row[7]

\* for row in rows: fold the row into tasks[row[6]], in first-seen order.
\* acc = [tasks, err]
RECURSIVE FoldTasks(_, _)
FoldTasks(rows, acc) ==
    IF rows = <<>> THEN acc
    ELSE IF FoldRaises(Head(rows)) THEN [acc EXCEPT !.err = "ValueError"]
    ELSE LET row == Head(rows)
             task_id == TaskIdOf(row)
             tasks == IF HasTask(acc.tasks, task_id) THEN acc.tasks
                      ELSE Append(acc.tasks, NewTask(task_id))
         IN FoldTasks(Tail(rows),
                      [acc EXCEPT !.tasks =
                          [i \in 1..Len(tasks) |->
                              IF tasks[i].task_id = task_id
                              THEN FoldRow(tasks[i], row) ELSE tasks[i]]])

\* The four cells of one task row.
write_task_row(row_cursor, task) ==
    LET by == "task_row"
    IN << Cell(by, row_cursor, 1, task.task_name),
          Cell(by, row_cursor, 2, Str(TeamworkLink(task.task_id))),
          Cell(by, row_cursor, 3, IF Truthy(task.estimated) THEN task.estimated ELSE NoneV),
          Cell(by, row_cursor, 4, Num(task.hours)) >>

\* for task_id, task in tasks.items(): one row each
RECURSIVE TaskRowsLoop(_, _)
TaskRowsLoop(tasks, st) ==
    IF tasks = <<>> THEN st
    ELSE TaskRowsLoop(Tail(tasks),
                      [st EXCEPT !.ws = @ \o write_task_row(st.row_cursor, Head(tasks)),
                                 !.row_cursor = @ + 1])

\* The merged title row of a project (columns 1..4).
project_title_row(st, title) ==
    [st EXCEPT !.merged = Append(@, MergedRange("project_title", st.row_cursor, 1, 4)),
               !.ws = Append(@, Cell("project_title", st.row_cursor, 1, title)),
               !.row_cursor = @ + 1]

\* row_cursor += 2 after the tasks of a project
ProjectGap(st) == [st EXCEPT !.row_cursor = @ + 2]

\* for project, rows in <groups>.items(): title row, task rows, two blank rows
RECURSIVE ProjectGroupsLoop(_, _)
ProjectGroupsLoop(groups, st) ==
    IF groups = <<>> \/ st.err # "ok" THEN st
    ELSE LET titled == project_title_row(st, Head(groups).key)
             folded == FoldTasks(Head(groups).rows, [tasks |-> <<>>, err |-> "ok"])
         IN IF folded.err # "ok" THEN [titled EXCEPT !.err = folded.err]
            ELSE ProjectGroupsLoop(Tail(groups),
                                   ProjectGap(TaskRowsLoop(folded.tasks, titled)))

\* key = "01-15" if date_val.day <= 15 else "16-31"
PeriodKey(date_val) == IF date_val.d <= 15 THEN "first" ELSE "second"

\* for row in data: skip a row without a date, else append it to its
\* period's group of its project.
RECURSIVE GroupByPeriod(_, _)
GroupByPeriod(data, buckets) ==
    IF data = <<>> THEN buckets
    ELSE LET row == Head(data)
             date_val == parse_date(row[1])
         IN IF date_val.t # "datetime" THEN GroupByPeriod(Tail(data), buckets)
            ELSE GroupByPeriod(
                    Tail(data),
                    IF PeriodKey(date_val) = "first"
                    THEN [buckets EXCEPT !.first = AppendTo(@, row[2], row)]
                    ELSE [buckets EXCEPT !.second = AppendTo(@, row[2], row)])

\* The merged banner row of a period (columns 1..4).
period_title_row(st, title) ==
    [st EXCEPT !.merged = Append(@, MergedRange("period_title", st.row_cursor, 1, 4)),
               !.ws = Append(@, Cell("period_title", st.row_cursor, 1, Str(title))),
               !.row_cursor = @ + 1]

\* row_cursor += 2 after the projects of a period
PeriodGap(st) == [st EXCEPT !.row_cursor = @ + 2]

\* for period_key in ["01-15", "16-31"]: banner, the period's projects, two blank rows
SplitHalfLoop(grouped_by_period, period_titles, st) ==
    LET p1 == ProjectGroupsLoop(grouped_by_period.first,
                                period_title_row(st, period_titles.first))
    IN IF p1.err # "ok" THEN p1
       ELSE LET p2 == ProjectGroupsLoop(grouped_by_period.second,
                                        period_title_row(PeriodGap(p1), period_titles.second))
            IN IF p2.err # "ok" THEN p2 ELSE PeriodGap(p2)

\* ExcelParser.generate_project_report, after remove_unused_columns popped
\* without raising; cols is the list after the pop.
generate_project_report(sheet, cols, group_type) ==
    LET pruned == remove_unused_columns(sheet, cols)
        unsorted == Tail(pruned)
    IN IF SortRaises(unsorted)
       THEN Result("TypeError", pruned, [NoLocals EXCEPT !.data = unsorted],
                   <<>>, <<>>, NoneV)
       ELSE
       LET data == SortByDate(unsorted)
           grouped == GroupByProject(data, <<>>)
           start == [row_cursor |-> 2, ws |-> write_header_row(ProjectHeaders),
                     merged |-> <<>>, err |-> "ok"]
           lc1 == [NoLocals EXCEPT !.data = data, !.grouped = grouped, !.row_cursor = 2]
       IN IF FilenameOutcome(data) # "ok"
          THEN Result(FilenameOutcome(data), pruned, lc1, start.ws, <<>>, NoneV)
          ELSE
          LET filename == generate_report_filename(group_type \o "_project", data[1][1])
              grouped_by_period == GroupByPeriod(data, [first |-> <<>>, second |-> <<>>])
              period_titles == build_period_titles(data[1][1])
              looped == IF group_type = "split_half"
                        THEN SplitHalfLoop(grouped_by_period, period_titles, start)
                        ELSE ProjectGroupsLoop(grouped, start)
              lc2 == IF group_type = "split_half"
                     THEN [lc1 EXCEPT !.filename = Str(filename),
                                      !.grouped_by_period = grouped_by_period,
                                      !.period_titles = period_titles,
                                      !.row_cursor = looped.row_cursor]
                     ELSE [lc1 EXCEPT !.filename = Str(filename),
                                      !.row_cursor = looped.row_cursor]
          IN Result(looped.err, pruned, lc2, looped.ws, looped.merged,
                    IF looped.err = "ok" THEN Str(filename) ELSE NoneV)

----------------------------------------------------------------------------
(* Uploads *)

\* The header row of the export: one title per column.
HeaderRow == [i \in 1..Len(AllColumns) |-> Str("header " \o AllColumns[i])]

\* A data row of the export.  Columns the code keeps: B (date), E (project),
\* G (description), K (task name), R (hours), AA (task id); columns a
\* project report stops deleting: T (estimated hours), then U (estimated
\* minutes), ...  Every other column is empty.
RawRow(date, project, hours, est_hours, est_minutes, task_id) ==
    [i \in 1..Len(AllColumns) |->
        CASE i = 2 -> date
          [] i = 5 -> project
          [] i = 7 -> Str("description")
          [] i = 11 -> Str("name of " \o PyStr(task_id))
          [] i = 18 -> hours
          [] i = 20 -> est_hours
          [] i = 21 -> est_minutes
          [] i = 27 -> task_id
          [] OTHER -> NoneV]

Rates == {40, 50}

ExchangeRates == {41}

GroupTypes == {"full_month", "split_half"}

\* Uploads that vary the layout: up to three projects, hours present or not.
LayoutRows ==
    {RawRow(DateTime(2024, 2, 3), Str(p), h, NoneV, NoneV, Str("T1")) :
        p \in {"Alpha", "Beta", "Gamma"}, h \in {NoneV, Num(2)}}

\* Uploads that vary the date: missing, of another type, unparsable and
\* parsable strings, and datetimes of a leap and a common February, of a
\* 30-day and of a 31-day month, on the 15th and the 16th.
DateValues ==
    {NoneV, Num(45000), Str("not a date"), Str("2024-02-20"),
     DateTime(2024, 2, 15), DateTime(2024, 2, 16), DateTime(2023, 2, 16),
     DateTime(2024, 4, 16), DateTime(2024, 1, 16)}

DateRows ==
    {RawRow(d, Str("Alpha"), Num(1), NoneV, NoneV, Str("T1")) : d \in DateValues}
    \cup {RawRow(d, Str("Beta"), Num(1), NoneV, NoneV, Str("T2")) :
            d \in {DateTime(2024, 2, 15), DateTime(2024, 2, 16)}}

\* Uploads that vary the tasks: two task ids, estimates missing or not,
\* hours missing or not, estimated minutes shared across tasks or not.
TaskRows ==
    {RawRow(DateTime(2024, 2, 3), Str("Alpha"), hm[1], e, hm[2], Str(t)) :
        hm \in {<<Num(1), Num(30)>>, <<NoneV, Num(60)>>},
        e \in {NoneV, Num(3), Num(5)},
        t \in {"T1", "T2"}}
    \cup {RawRow(DateTime(2024, 2, 3), Str("Beta"), Num(2), NoneV, Num(30), Str(t)) :
            t \in {"T1", "T3"}}

\* Uploads that vary the two last kept columns: estimated hours missing or
\* shared by two tasks, task ids as text and as a number.
FieldRows ==
    {RawRow(DateTime(2024, 2, 3), Str("Alpha"), Num(1), e, Num(30), t) :
        e \in {NoneV, Num(3)}, t \in {Str("T1"), Num(7)}}
    \cup {RawRow(DateTime(2024, 2, 3), Str("Beta"), Num(2), Num(3), Num(30), Num(7))}

----------------------------------------------------------------------------
(* The state machine *)

NoCall == [endpoint |-> "none"]

Init ==
    /\ UNUSED_COLUMNS = UNUSED_COLUMNS_initial
    /\ DEFAULT_FONT_name = "Calibri"
    /\ phase = "idle"
    /\ call = NoCall
    /\ workbook = NoneV
    /\ locals = NoLocals
    /\ new_ws = <<>>
    /\ merged = <<>>
    /\ outcome = "none"
    /\ saved = NoneV

\* The state a finished call leaves.
Leave(r) ==
    /\ workbook' = r.workbook
    /\ locals' = r.locals
    /\ new_ws' = r.new_ws
    /\ merged' = r.merged
    /\ outcome' = r.outcome
    /\ saved' = r.saved

\* POST /generate-personal-time: the upload is saved to a temp file, an
\* ExcelParser is constructed on it and generate_financial_report runs.
generate_personal_time(Rows, n) ==
    /\ phase = "idle"
    /\ \E data \in SeqsUpTo(Rows, n), rate \in Rates, exchange_rate \in ExchangeRates :
          /\ call' = [endpoint |-> "generate-personal-time", rate |-> rate,
                      exchange_rate |-> exchange_rate]
          /\ DEFAULT_FONT_name' = "Ubuntu"
          /\ UNUSED_COLUMNS' = ColumnsAfterPrune(UNUSED_COLUMNS, FALSE)
          /\ Leave(generate_financial_report(<<HeaderRow>> \o data, UNUSED_COLUMNS,
                                             rate, exchange_rate))
    /\ phase' = "responding"

\* POST /generate-project-time: the upload is saved to a temp file, an
\* ExcelParser is constructed on it and generate_project_report runs.
generate_project_time(Rows, n) ==
    /\ phase = "idle"
    /\ \E data \in SeqsUpTo(Rows, n), group_type \in GroupTypes :
          /\ call' = [endpoint |-> "generate-project-time", group_type |-> group_type]
          /\ DEFAULT_FONT_name' = "Ubuntu"
          /\ IF PopRaises(UNUSED_COLUMNS)
             THEN /\ UNUSED_COLUMNS' = UNUSED_COLUMNS
                  /\ Leave(Result("IndexError", <<HeaderRow>> \o data, NoLocals,
                                  <<>>, <<>>, NoneV))
             ELSE /\ UNUSED_COLUMNS' = ColumnsAfterPrune(UNUSED_COLUMNS, TRUE)
                  /\ Leave(generate_project_report(
                              <<HeaderRow>> \o data,
                              ColumnsAfterPrune(UNUSED_COLUMNS, TRUE), group_type))
    /\ phase' = "responding"

\* The handler returns (or the exception becomes an error response): the
\* entities of the call are gone, the process-wide state stays.
respond ==
    /\ phase = "responding"
    /\ phase' = "idle"
    /\ call' = NoCall
    /\ workbook' = NoneV
    /\ locals' = NoLocals
    /\ new_ws' = <<>>
    /\ merged' = <<>>
    /\ outcome' = "none"
    /\ saved' = NoneV
    /\ UNCHANGED <<UNUSED_COLUMNS, DEFAULT_FONT_name>>

Next(Rows, n) ==
    \/ generate_personal_time(Rows, n)
    \/ generate_project_time(Rows, n)
    \/ respond

\* Uploads that vary the layout.
SpecLayout == Init /\ [][Next(LayoutRows, MaxRows)]_vars

\* Uploads that vary the dates.
SpecDates == Init /\ [][Next(DateRows, MaxDatedRows)]_vars

\* Uploads that vary the tasks.
SpecTasks == Init /\ [][Next(TaskRows, MaxRows)]_vars

\* Uploads that vary the estimated hours and the task id.
SpecFields == Init /\ [][Next(FieldRows, MaxFieldRows)]_vars

----------------------------------------------------------------------------
(* Reading a finished call *)

Min(S) == CHOOSE x \in S : \A y \in S : x <= y

\* The rows of the output sheet accessed by one writer.
RowsBy(by) == {new_ws[i].row : i \in {j \in DOMAIN new_ws : new_ws[j].by = by}}

\* The accesses that target one cell.
AccessesOf(row, col) ==
    {i \in DOMAIN new_ws : new_ws[i].row = row /\ new_ws[i].col = col}

\* The value a cell ends with: that of the last access that set one.
CellValue(row, col) ==
    LET writes == {i \in AccessesOf(row, col) : new_ws[i].kind = "value"}
    IN IF writes = {} THEN NoneV ELSE new_ws[Max(writes)].value

InMergedRange(row, col) ==
    \E i \in DOMAIN merged :
        merged[i].row = row /\ merged[i].c1 <= col /\ col <= merged[i].c2

\* A set of rows as an ascending sequence.
RECURSIVE Ascending(_)
Ascending(S) == IF S = {} THEN <<>> ELSE <<Min(S)>> \o Ascending(S \ {Min(S)})

\* The rows of an ordered mapping, group after group.
RECURSIVE Flatten(_)
Flatten(groups) ==
    IF groups = <<>> THEN <<>> ELSE Head(groups).rows \o Flatten(Tail(groups))

FinancialCall == phase = "responding" /\ call.endpoint = "generate-personal-time"

ProjectCall == phase = "responding" /\ call.endpoint = "generate-project-time"

\* The upload had data rows after its header.
NonEmptyInput == Len(workbook) > 1

\* A financial report on a non-empty upload that was written to the end.
FinancialWritten == FinancialCall /\ NonEmptyInput /\ outcome = "ok"

EntryRows == RowsBy("_write_financial_row")

TitleRows == RowsBy("_merge_title_row")

\* The rows of the three-row totals block (columns B..E of _write_bottom_totals).
TotalsBlockRows ==
    {new_ws[i].row : i \in {j \in DOMAIN new_ws :
        new_ws[j].by = "_write_bottom_totals" /\ new_ws[j].col <= 5}}

\* The total-hours and the total-amount formulas of the totals block.
TotalHoursFormula == CellValue(Min(TotalsBlockRows), 4)

TotalAmountFormula == CellValue(Min(TotalsBlockRows) + 1, 4)

\* "=SUM(<col><first>:<col><last>)"
SumOver(col, first, last) ==
    Str("=SUM(" \o col \o ToString(first) \o ":" \o col \o ToString(last) \o ")")

----------------------------------------------------------------------------
(* C1 *)

\* C1 as claimed: in a financial report of a non-empty input, the total-hours
\* and total-amount SUM formulas range from the row of the first written
\* entry to the row of the last written entry.
C1_SumSpansEntryRows ==
    FinancialWritten =>
        /\ TotalHoursFormula = SumOver("D", Min(EntryRows), Max(EntryRows))
        /\ TotalAmountFormula = SumOver("G", Min(EntryRows), Max(EntryRows))

\* C1 amended: in a financial report of a non-empty input, the total-hours
\* and total-amount SUM formulas range from row 2, which is the title row of
\* the first project and lies one row above the first written entry, to the
\* row of the last written entry; every row of that range that is not an
\* entry row (a title row or a blank separator row) holds no value in the
\* summed columns D and G, so the sums are those of the entry rows.
C1_SumSpansRow2ToLastEntry ==
    FinancialWritten =>
        /\ TotalHoursFormula = SumOver("D", 2, Max(EntryRows))
        /\ TotalAmountFormula = SumOver("G", 2, Max(EntryRows))
        /\ 2 = Min(TitleRows)
        /\ 2 = Min(EntryRows) - 1
        /\ \A r \in (2..Max(EntryRows)) \ EntryRows :
              /\ CellValue(r, 4) = NoneV
              /\ CellValue(r, 7) = NoneV

\* A report of two projects, one of them with two entries: the SUM range
\* runs over title and separator rows too.
C1_Witness ==
    /\ FinancialWritten
    /\ Cardinality(TitleRows) = 2
    /\ Cardinality(EntryRows) = 3
    /\ TotalHoursFormula = SumOver("D", 2, 9)

----------------------------------------------------------------------------
(* C2 *)

\* C2 as claimed: in a financial report of a non-empty input, the rate row
\* and the exchange-rate row of the look-ahead pass are both strictly below
\* every row of the totals block.
C2_InputsBelowTotals ==
    FinancialWritten =>
        \A r \in TotalsBlockRows : locals.rate_row > r /\ locals.exchange_row > r

\* C2 amended: in a financial report of a non-empty input, the rate row and
\* the exchange-rate row of the look-ahead pass are both strictly below every
\* title row and every entry row; the rate row is the blank row right above
\* the three-row totals block and the exchange-rate row is the first row of
\* the totals block, where the two input cells (columns F and G) lie beside
\* the cells of the totals block (columns B to E).
C2_InputsBesideTotals ==
    FinancialWritten =>
        /\ \A r \in EntryRows \cup TitleRows :
              locals.rate_row > r /\ locals.exchange_row > r
        /\ Cardinality(TotalsBlockRows) = 3
        /\ locals.rate_row = Min(TotalsBlockRows) - 1
        /\ locals.exchange_row = Min(TotalsBlockRows)
        /\ CellValue(locals.rate_row, 7) = Num(call.rate)
        /\ CellValue(locals.exchange_row, 7) = Num(call.exchange_rate)
        /\ \A i \in DOMAIN new_ws :
              new_ws[i].by = "_write_bottom_totals" =>
                  \/ new_ws[i].col \in 2..5 /\ new_ws[i].row \in TotalsBlockRows
                  \/ new_ws[i].col \in 6..7
                        /\ new_ws[i].row \in {locals.rate_row, locals.exchange_row}

\* A report of three projects: the exchange-rate row is the total-hours row.
C2_Witness ==
    /\ FinancialWritten
    /\ Cardinality(TitleRows) = 3
    /\ locals.exchange_row = Min(TotalsBlockRows)
    /\ locals.rate_row = Max(EntryRows) + 4

----------------------------------------------------------------------------
(* C3 *)

\* The spreadsheet's reading of a cell that holds a number or "=$G$<row>".
Resolve(v) ==
    LET last == Max({new_ws[i].row : i \in DOMAIN new_ws})
        targets == IF v.t = "str"
                   THEN {r \in 1..last : v.s = "=$G$" \o ToString(r)}
                   ELSE {}
    IN CASE v.t = "num" -> v
         [] targets # {} -> CellValue(CHOOSE r \in targets : TRUE, 7)
         [] OTHER -> NoneV

\* The spreadsheet's value of the cost cell G<r> when it holds "=Dr*Er*Fr".
CostValue(r) ==
    LET d == Resolve(CellValue(r, 4))
        e == Resolve(CellValue(r, 5))
        f == Resolve(CellValue(r, 6))
        rr == ToString(r)
    IN IF /\ CellValue(r, 7) = Str("=D" \o rr \o "*E" \o rr \o "*F" \o rr)
          /\ d.t = "num" /\ e.t = "num" /\ f.t = "num"
       THEN Num(d.n * e.n * f.n)
       ELSE NoneV

\* The accesses that write the two input values: _write_bottom_totals'
\* writes to column G, the rate first.
InputWrites ==
    Ascending({i \in DOMAIN new_ws :
        new_ws[i].by = "_write_bottom_totals" /\ new_ws[i].col = 7})

\* The hours of an input row, a missing value counted as 0.
HoursOf(row) == IF row[5].t = "num" THEN row[5].n ELSE 0

\* C3: in a financial report, for every entry row r the cost cell G(r) is
\* D(r)*E(r)*F(r), E(r) and F(r) refer by absolute address to the two cells
\* the rate and the exchange rate are written to, nothing else of the report
\* targets those two cells, and G(r) evaluates to hours * rate * exchange_rate
\* for the hours of the input row written at r.
C3_CostIsHoursRateExchange ==
    FinancialWritten =>
        LET rows == Ascending(EntryRows)
            flat == Flatten(locals.grouped)
            rate_at == new_ws[InputWrites[1]].row
            exch_at == new_ws[InputWrites[2]].row
        IN /\ Len(InputWrites) = 2
           /\ Len(rows) = Len(flat)
           /\ CellValue(rate_at, 7) = Num(call.rate)
           /\ CellValue(exch_at, 7) = Num(call.exchange_rate)
           /\ Cardinality(AccessesOf(rate_at, 7)) = 1
           /\ Cardinality(AccessesOf(exch_at, 7)) = 1
           /\ ~InMergedRange(rate_at, 7)
           /\ ~InMergedRange(exch_at, 7)
           /\ \A k \in 1..Len(rows) :
                 /\ CellValue(rows[k], 5) = Str("=$G$" \o ToString(rate_at))
                 /\ CellValue(rows[k], 6) = Str("=$G$" \o ToString(exch_at))
                 /\ CellValue(rows[k], 4) = Num(HoursOf(flat[k]))
                 /\ CostValue(rows[k])
                        = Num(HoursOf(flat[k]) * call.rate * call.exchange_rate)

\* A report of two projects with an entry of 2 hours at rate 50 and exchange
\* rate 41: its cost cell evaluates to 4100.
C3_Witness ==
    /\ FinancialWritten
    /\ Cardinality(TitleRows) = 2
    /\ call.rate = 50
    /\ \E r \in EntryRows : CellValue(r, 4) = Num(2) /\ CostValue(r) = Num(4100)

----------------------------------------------------------------------------
(* C4 *)

\* C4 as claimed: no step changes the process-wide list of columns that the
\* pruning step removes, so every call of a report type prunes by the same
\* list whatever was generated before it.
C4_PruningListNeverChanges == [][UNUSED_COLUMNS' = UNUSED_COLUMNS]_vars

----------------------------------------------------------------------------
(* Reading a finished project report *)

\* The value of export column col in a row of the sheet the call read: the
\* column is found by its title in the header row.
FieldOf(row, col) ==
    row[CHOOSE i \in 1..Len(workbook[1]) : workbook[1][i] = Str("header " \o col)]

\* The date, the estimated hours and the task id of an input row.
DateOf(row) == FieldOf(row, "B")

EstimateOf(row) == FieldOf(row, "T")

TaskOf(row) == FieldOf(row, "AA")

\* The data rows of the sheet the call read.
InputRows == Tail(workbook)

\* A project report on a non-empty upload that was written to the end.
ProjectWritten == ProjectCall /\ NonEmptyInput /\ outcome = "ok"

SplitHalfCall == ProjectCall /\ call.group_type = "split_half"

\* The groups in the order the report writes them.
EmittedGroups ==
    IF call.group_type = "split_half"
    THEN locals.grouped_by_period.first \o locals.grouped_by_period.second
    ELSE locals.grouped

ProjectTitleRows == Ascending(RowsBy("project_title"))

PeriodTitleRows == Ascending(RowsBy("period_title"))

\* The task rows written under the k-th project title.
TaskRowsOfGroup(k) ==
    {r \in RowsBy("task_row") :
        /\ ProjectTitleRows[k] < r
        /\ k < Len(ProjectTitleRows) => r < ProjectTitleRows[k + 1]}

\* The rows of a group that carry task id t, in processing order.
RowsOfTask(group, t) ==
    LET idx == Ascending({i \in 1..Len(group.rows) : TaskOf(group.rows[i]) = t})
    IN [j \in 1..Len(idx) |-> group.rows[idx[j]]]

\* The estimate of the earliest row that has one; None when no row has.
RECURSIVE FirstEstimate(_)
FirstEstimate(rows) ==
    IF rows = <<>> THEN NoneV
    ELSE IF EstimateOf(Head(rows)).t # "None" THEN EstimateOf(Head(rows))
    ELSE FirstEstimate(Tail(rows))

----------------------------------------------------------------------------
(* C5 *)

\* C5 as claimed: in a project report, every task of every group is written
\* with the estimate of the earliest row of that task whose estimated-hours
\* field is not null; rows with a null estimate before it do not fix the
\* estimate and later estimates are discarded.
C5_EstimateIsFirstNonNull ==
    ProjectWritten =>
        /\ Len(ProjectTitleRows) = Len(EmittedGroups)
        /\ \A k \in 1..Len(EmittedGroups) :
              \A t \in {TaskOf(row) : row \in Range(EmittedGroups[k].rows)} :
                 \E r \in TaskRowsOfGroup(k) :
                    /\ CellValue(r, 2) = Str("https://avada.teamwork.com/#tasks/" \o PyStr(t))
                    /\ CellValue(r, 3) = FirstEstimate(RowsOfTask(EmittedGroups[k], t))

----------------------------------------------------------------------------
(* C6 *)

\* A date that _parse_date degrades to None: null, of a type that is no
\* date, or a string that is no ISO date.
MalformedDate(row) == DateOf(row).t # "datetime" /\ parse_date(DateOf(row)) = NoneV

\* C6 as claimed: a report on a non-empty input in which some rows carry a
\* malformed date runs to completion and saves a document.
C6_MalformedDateNeverAborts ==
    (/\ phase = "responding"
     /\ NonEmptyInput
     /\ \E row \in Range(InputRows) : MalformedDate(row))
        => outcome = "ok" /\ saved # NoneV

----------------------------------------------------------------------------
(* C7 *)

\* C7 as claimed: a report on an input without data rows ends in the
\* EmptyDataset error and saves no document.
C7_EmptyInputRaisesEmptyDataset ==
    (phase = "responding" /\ ~NonEmptyInput)
        => outcome = "EmptyDataset" /\ saved = NoneV

----------------------------------------------------------------------------
(* C8 *)

\* The calendar: the number of days of a month.
CalendarDays(y, m) ==
    IF m = 2 /\ (y % 400 = 0 \/ (y % 4 = 0 /\ y % 100 # 0))
    THEN 29
    ELSE <<31, 28, 31, 30, 31, 30, 31, 31, 30, 31, 30, 31>>[m]

\* The second period's banner for month m of year y, ending on the true
\* last day of the month.
SecondBanner(y, m) ==
    Str("Period: 16." \o Pad2(m) \o "." \o ToString(y) \o " - "
        \o ToString(CalendarDays(y, m)) \o "." \o Pad2(m) \o "." \o ToString(y))

\* The banner written above the second period.
WrittenSecondBanner == CellValue(PeriodTitleRows[2], 1)

SecondBucketRows == Flatten(locals.grouped_by_period.second)

\* C8 as claimed: in split-half mode, for every row of the second bucket the
\* end day, month and year of the second banner are the number of days, the
\* month and the year of that row's own date.
C8_BannerEndsRowsMonth ==
    (ProjectWritten /\ SplitHalfCall) =>
        \A row \in Range(SecondBucketRows) :
            WrittenSecondBanner = SecondBanner(DateOf(row).y, DateOf(row).m)

\* C8 amended: in split-half mode, the second banner ends on the true last
\* day of the month of the earliest row of the date-sorted input, in that
\* row's month and year; so for every row of the second bucket that lies in
\* the same month and year as the earliest row, the banner's end day, month
\* and year are the number of days, the month and the year of that row's date.
C8_BannerEndsEarliestRowsMonth ==
    (ProjectWritten /\ SplitHalfCall) =>
        /\ Len(PeriodTitleRows) = 2
        /\ \A first \in Range(InputRows) :
              (\A row \in Range(InputRows) : ~KeyLess(DateOf(row), DateOf(first)))
                 => WrittenSecondBanner = SecondBanner(DateOf(first).y, DateOf(first).m)
        /\ \A row \in Range(SecondBucketRows) :
              (/\ DateOf(row).y = DateOf(locals.data[1]).y
               /\ DateOf(row).m = DateOf(locals.data[1]).m)
                 => WrittenSecondBanner = SecondBanner(DateOf(row).y, DateOf(row).m)

\* A split-half report with a row of the 16th of February 2024 in the second
\* bucket: the banner ends on 29.02.2024.
C8_Witness ==
    /\ ProjectWritten /\ SplitHalfCall
    /\ \E row \in Range(SecondBucketRows) :
          DateOf(row) = DateTime(2024, 2, 16)
    /\ WrittenSecondBanner = Str("Period: 16.02.2024 - 29.02.2024")

----------------------------------------------------------------------------
(* C9 *)

\* Row is one of the rows of a period's bucket.
InBucket(bucket, row) ==
    /\ locals.grouped_by_period # NoneV
    /\ row \in Range(Flatten(bucket))

\* Every input row is in the bucket of its half of the month, or in none if
\* it has no date, and the two periods are written in order, each with its
\* projects' titles in the order of its bucket.
Bucketed ==
    /\ \A row \in Range(InputRows) :
          LET date_val == parse_date(DateOf(row))
          IN IF date_val.t = "datetime"
             THEN /\ InBucket(locals.grouped_by_period.first, row) <=> date_val.d <= 15
                  /\ InBucket(locals.grouped_by_period.second, row) <=> date_val.d > 15
             ELSE /\ ~InBucket(locals.grouped_by_period.first, row)
                  /\ ~InBucket(locals.grouped_by_period.second, row)
    /\ Len(PeriodTitleRows) = 2
    /\ Len(ProjectTitleRows) = Len(EmittedGroups)
    /\ \A k \in 1..Len(EmittedGroups) :
          /\ CellValue(ProjectTitleRows[k], 1) = EmittedGroups[k].key
          /\ PeriodTitleRows[2] < ProjectTitleRows[k]
                <=> k > Len(locals.grouped_by_period.first)

\* C9 as claimed: in split-half mode on a non-empty input, every row with a
\* valid date is placed in exactly one bucket, the first iff its day is <= 15,
\* rows with a null date are placed in neither, and the buckets are emitted
\* first half then second half, each with its projects in first-seen order.
C9_EveryDatedRowIsBucketed ==
    (SplitHalfCall /\ NonEmptyInput /\ ~PopRaises(UNUSED_COLUMNS)) => Bucketed

\* What is left of C9 in the code: it holds of the split-half reports that
\* are written to the end, none of which had a row without a datetime.
C9_OnWrittenReports ==
    (SplitHalfCall /\ ProjectWritten) =>
        /\ Bucketed
        /\ \A row \in Range(InputRows) : DateOf(row).t = "datetime"

----------------------------------------------------------------------------
(* C10 *)

\* The sum of the hours cells of a set of task rows.
WrittenHours(rows) ==
    SumSeq([j \in 1..Cardinality(rows) |-> CellValue(Ascending(rows)[j], 4).n])

\* The sum of the raw hours of a group's rows, null counted as 0.
RawHours(group) == SumSeq([j \in 1..Len(group.rows) |-> HoursOf(group.rows[j])])

\* The k-th emitted group conserves hours and has one task row per task id.
GroupConserved(k) ==
    /\ WrittenHours(TaskRowsOfGroup(k)) = RawHours(EmittedGroups[k])
    /\ Cardinality(TaskRowsOfGroup(k))
          = Cardinality({TaskOf(row) : row \in Range(EmittedGroups[k].rows)})

\* C10 as claimed: in a project report, for every group the hours of its
\* task rows sum to the raw hours of the rows of the group, and exactly one
\* task row is written per distinct task id of the group.
C10_HoursConservedPerGroup ==
    ProjectWritten =>
        /\ Len(ProjectTitleRows) = Len(EmittedGroups)
        /\ \A k \in 1..Len(EmittedGroups) : GroupConserved(k)

\* What is left of C10 in the code: it holds of the first project report of
\* a process, which is the only one that folds by the task id column.
C10_OnFirstProjectReport ==
    (ProjectWritten /\ Len(UNUSED_COLUMNS) = Len(UNUSED_COLUMNS_initial) - 1) =>
        /\ Len(ProjectTitleRows) = Len(EmittedGroups)
        /\ \A k \in 1..Len(EmittedGroups) : GroupConserved(k)

----------------------------------------------------------------------------
(* C11 *)

\* A written project report whose pruned rows have seven fields.
SevenFieldRows == ProjectWritten /\ Len(workbook[1]) = 7

\* The hours of the rows of a group whose field idf holds t.
HoursOfField(rows, idf, t) ==
    SumSeq([i \in 1..Len(rows) |-> IF rows[i][idf] = t THEN HoursOf(rows[i]) ELSE 0])

\* The task rows of every group are the fold of the group's rows by field
\* idf: one task row per distinct value of the field, linked to that value
\* and carrying the hours of the rows that share it; its estimate is empty
\* or the number in field estf of one of those rows.
FoldedByFields(idf, estf) ==
    /\ Len(ProjectTitleRows) = Len(EmittedGroups)
    /\ \A k \in 1..Len(EmittedGroups) :
          LET rows == EmittedGroups[k].rows
              ids == {rows[i][idf] : i \in 1..Len(rows)}
          IN /\ Cardinality(TaskRowsOfGroup(k)) = Cardinality(ids)
             /\ \A t \in ids :
                   \E r \in TaskRowsOfGroup(k) :
                      /\ CellValue(r, 2) = Str("https://avada.teamwork.com/#tasks/" \o PyStr(t))
                      /\ CellValue(r, 4) = Num(HoursOfField(rows, idf, t))
                      /\ \/ CellValue(r, 3) = NoneV
                         \/ \E i \in 1..Len(rows) :
                               /\ rows[i][idf] = t
                               /\ rows[i][estf].t = "num"
                               /\ CellValue(r, 3) = Num(PyFloat(rows[i][estf]))

\* C11 as claimed: in a project report on rows of seven fields, the rows
\* of a group are folded by the sixth field (the task id), every task row
\* is linked to https://avada.teamwork.com/#tasks/{sixth field}, and its
\* estimate is taken from the seventh field (the estimated hours).
C11_FoldedBySixthField == SevenFieldRows => FoldedByFields(6, 7)

\* C11 as the code has it: the pruning step leaves the columns in sheet
\* order, [date, project, description, task_name, hours, estimated_hours,
\* task_id]; the rows of a group are folded by the seventh field, every
\* task row is linked to https://avada.teamwork.com/#tasks/{seventh field},
\* and its estimate is taken from the sixth field.
C11_FoldedBySeventhField == SevenFieldRows => FoldedByFields(7, 6)

\* A written report on seven-field rows with a group in which two rows
\* share the estimated hours and differ in the task id, one of them a
\* number, and which is written as two task rows or more.
C11_Witness ==
    /\ SevenFieldRows
    /\ \E k \in 1..Len(EmittedGroups) :
          LET rows == EmittedGroups[k].rows
          IN /\ Cardinality(TaskRowsOfGroup(k)) >= 2
             /\ \E i, j \in 1..Len(rows) :
                   /\ rows[i][6].t = "num"
                   /\ rows[i][6] = rows[j][6]
                   /\ rows[i][7] # rows[j][7]
                   /\ rows[i][7].t = "num"

====
